---- MODULE Spec2Model ----
(***************************************************************************)
(* Model of the repository's operations, each from its call to its result  *)
(* or error, with every outbound call (custody service, swap venue, RPC    *)
(* endpoint) recorded:                                                     *)
(*   - the Bebop swap orchestration (swapTokenBebop), alone and as two     *)
(*     interleaved invocations;                                            *)
(*   - withdrawSepoliaETH;                                                 *)
(*   - the test-transaction script;                                        *)
(*   - getBalanceByAsset;                                                  *)
(*   - the command-line entry points.                                      *)
(* Each has its own next-state relation and specification.                 *)
(*                                                                         *)
(* Text is modelled as a sequence of one-character strings where the code  *)
(* looks inside it (the amount), and as a string otherwise.                *)
(***************************************************************************)
EXTENDS Integers, Sequences, FiniteSets, TLC

(***************************************************************************)
(* Bounds of the model: how many distinct answers the services may give.   *)
(***************************************************************************)
NAddrs == 2
NHashes == 2

(***************************************************************************)
(* JavaScript values.                                                      *)
(***************************************************************************)
Undefined == "undefined"

\* !v is false: v is neither undefined nor the empty string
Truthy(v) == v \notin {Undefined, ""}

Digits == {"0", "1", "2", "3", "4", "5", "6", "7", "8", "9"}

(***************************************************************************)
(* ethers.isAddress: a token is described by the features the check reads. *)
(*   text    the string itself (Undefined when the argument is missing)    *)
(*   prefix  what precedes the body: "0x", "" or something else            *)
(*   body    number of characters after the prefix                         *)
(*   hex     all characters of the body are hexadecimal digits             *)
(*   mixed   the body has both upper-case and lower-case letters           *)
(*   eip55   the body's letter case is the EIP-55 checksum of the address  *)
(*   icap    the string is an ICAP address (XE..) with a valid checksum    *)
(***************************************************************************)
AddrHexLen == 40

Token(text, prefix, body, hex, mixed, eip55, icap) ==
    [text |-> text, prefix |-> prefix, body |-> body, hex |-> hex,
     mixed |-> mixed, eip55 |-> eip55, icap |-> icap]

TokMissing == Token(Undefined, "", 0, FALSE, FALSE, FALSE, FALSE)
TokEmpty   == Token("", "", 0, FALSE, FALSE, FALSE, FALSE)
WETH       == Token("0x4200000000000000000000000000000000000006", "0x", 40, TRUE, FALSE, FALSE, FALSE)
USDC       == Token("0x833589fCD6eDb6E08f4c7C32D4f71b54bdA02913", "0x", 40, TRUE, TRUE, TRUE, FALSE)
UsdcBadSum == Token("0x833589FCD6eDb6E08f4c7C32D4f71b54bdA02913", "0x", 40, TRUE, TRUE, FALSE, FALSE)
WethShort  == Token("0x420000000000000000000000000000000000006", "0x", 39, TRUE, FALSE, FALSE, FALSE)
WethLong   == Token("0x42000000000000000000000000000000000000006", "0x", 41, TRUE, FALSE, FALSE, FALSE)
WethBare   == Token("4200000000000000000000000000000000000006", "", 40, TRUE, FALSE, FALSE, FALSE)
WethUpperX == Token("0X4200000000000000000000000000000000000006", "0X", 40, TRUE, FALSE, FALSE, FALSE)
NotHex     == Token("0x42000000000000000000000000000000000000zz", "0x", 40, FALSE, FALSE, FALSE, FALSE)

isAddress(t) ==
    \/ /\ t.prefix \in {"0x", ""}
       /\ t.body = AddrHexLen
       /\ t.hex
       /\ (t.mixed => t.eip55)
    \/ t.icap

(***************************************************************************)
(* ethers.parseEther(amount.toString()).toString()                         *)
(***************************************************************************)
EtherDecimals == 18

RECURSIVE AllDigits(_)
AllDigits(s) == IF s = <<>> THEN TRUE ELSE Head(s) \in Digits /\ AllDigits(Tail(s))

RECURSIVE AllZeros(_)
AllZeros(s) == IF s = <<>> THEN TRUE ELSE Head(s) = "0" /\ AllZeros(Tail(s))

RECURSIVE StripZeros(_)
StripZeros(s) == IF s # <<>> /\ Head(s) = "0" THEN StripZeros(Tail(s)) ELSE s

RECURSIVE PadZeros(_, _)
PadZeros(s, n) == IF Len(s) >= n THEN s ELSE PadZeros(Append(s, "0"), n)

\* position of the first "." of s, or 0
RECURSIVE DotAt(_, _)
DotAt(s, i) == IF i > Len(s) THEN 0 ELSE IF s[i] = "." THEN i ELSE DotAt(s, i + 1)

\* the three groups of /^(-?)([0-9]*)\.?([0-9]*)$/, whether or not s matches
Unsigned(s) == IF s # <<>> /\ Head(s) = "-" THEN Tail(s) ELSE s
IsNegative(s) == s # <<>> /\ Head(s) = "-"
WholePart(s) ==
    IF DotAt(Unsigned(s), 1) = 0 THEN Unsigned(s)
    ELSE SubSeq(Unsigned(s), 1, DotAt(Unsigned(s), 1) - 1)
DecimalPart(s) ==
    IF DotAt(Unsigned(s), 1) = 0 THEN <<>>
    ELSE SubSeq(Unsigned(s), DotAt(Unsigned(s), 1) + 1, Len(Unsigned(s)))

MatchesFixed(s) ==
    /\ AllDigits(WholePart(s))
    /\ AllDigits(DecimalPart(s))
    /\ Len(WholePart(s)) + Len(DecimalPart(s)) > 0

\* parseEther without the precision check
parseEtherStatusLax(s) ==
    IF ~MatchesFixed(s) THEN "invalid FixedNumber string value" ELSE "ok"

\* "ok", or the message of the error parseEther throws
parseEtherStatus(s) ==
    IF ~MatchesFixed(s) THEN "invalid FixedNumber string value"
    ELSE IF ~AllZeros(SubSeq(PadZeros(DecimalPart(s), EtherDecimals),
                             EtherDecimals + 1,
                             Len(PadZeros(DecimalPart(s), EtherDecimals))))
    THEN "too many decimals for format"
    ELSE "ok"

\* parseEther taking the digits of the amount as they stand, without scaling
parseEtherUnscaled(s) ==
    IF StripZeros(WholePart(s) \o DecimalPart(s)) = <<>> THEN <<"0">>
    ELSE IF IsNegative(s) THEN <<"-">> \o StripZeros(WholePart(s) \o DecimalPart(s))
    ELSE StripZeros(WholePart(s) \o DecimalPart(s))

\* the decimal string of the BigInt, for an s that parses
Magnitude(s) ==
    StripZeros(WholePart(s) \o SubSeq(PadZeros(DecimalPart(s), EtherDecimals), 1, EtherDecimals))
parseEther(s) ==
    IF Magnitude(s) = <<>> THEN <<"0">>
    ELSE IF IsNegative(s) THEN <<"-">> \o Magnitude(s) ELSE Magnitude(s)

(***************************************************************************)
(* Helpers of the swap module.                                             *)
(***************************************************************************)
getCAIP2(chainId) == <<"eip155", chainId>>

chains ==
    [c \in {1, 8453, 137, 42161, 10, 11155111} |->
        CASE c = 1 -> "ethereum"
          [] c = 8453 -> "base"
          [] c = 137 -> "polygon"
          [] c = 42161 -> "arbitrum"
          [] c = 10 -> "optimism"
          [] c = 11155111 -> "sepolia"]

\* getChainName falling back to a default name, as getExplorerUrl does
getChainNameDefault(chainId) == IF chainId \in DOMAIN chains THEN chains[chainId] ELSE "ethereum"

\* chains[chainId], Undefined when the table has no such key
getChainName(chainId) == IF chainId \in DOMAIN chains THEN chains[chainId] ELSE Undefined

(***************************************************************************)
(* Errors: the message of the Error object, and the text interpolated into *)
(* it where that text comes from a service.                                *)
(***************************************************************************)
Err(message, detail) == [message |-> message, detail |-> detail]
NoError == Err("", "")
TypeErrorUndefined == Err("TypeError: Cannot read properties of undefined", "")

(***************************************************************************)
(* Inputs.  NoChain stands for a chain argument that is undefined or 0     *)
(* (both are falsy); NoAmount for an undefined amount.                     *)
(***************************************************************************)
NoChain == 0
NoAmount == <<Undefined>>

WalletIds == {Undefined, "", "w1"}
FromTokens == {TokMissing, WETH, UsdcBadSum, WethShort, WethBare}
ToTokens == {TokEmpty, USDC, WethLong, WethUpperX, NotHex}
Amounts ==
    { NoAmount, <<>>,
      <<"1">>, <<"1", ".", "5">>, <<"-", "1">>,
      <<"0", ".", "0","0","0","0","0","0","0","0","0","0","0","0","0","0","0","0","0","1">>,
      <<"0", ".", "0","0","0","0","0","0","0","0","0","0","0","0","0","0","0","0","0","0","1">>,
      <<"1", ".", "5","0","0","0","0","0","0","0","0","0","0","0","0","0","0","0","0","0","0">>,
      <<"a", "b", "c">>, <<".">> }
FromChains == {NoChain, 1, 8453, 137, 42161, 10, 11155111, 5}
ToChains == {NoChain, 8453, 1}

Requests ==
    [walletId : WalletIds, fromToken : FromTokens, toToken : ToTokens,
     amount : Amounts, fromChain : FromChains, toChain : ToChains,
     gasless : BOOLEAN, skipApproval : BOOLEAN]

NoRequest ==
    [walletId |-> Undefined, fromToken |-> TokMissing, toToken |-> TokMissing,
     amount |-> NoAmount, fromChain |-> NoChain, toChain |-> NoChain,
     gasless |-> FALSE, skipApproval |-> FALSE]

AmountTruthy(a) == a \notin {NoAmount, <<>>}

(***************************************************************************)
(* What the services may answer.                                           *)
(***************************************************************************)
AddressPool == <<"0xaddr1", "0xaddr2", "0xaddr3", "0xaddr4">>
WalletAddresses == {AddressPool[i] : i \in 1..NAddrs}
HashPool == <<"0xabc", "0xdef", "0x123", "0x456">>
Hashes == {HashPool[i] : i \in 1..NHashes}
CustodyErrors == {Err("custody: request failed", "404"), Err("custody: request failed", "500")}
HttpErrors == {Err("Request failed with status code", "400")}

Tx(to, data, value, buyAmount) ==
    [present |-> TRUE, to |-> to, data |-> data, value |-> value, buyAmount |-> buyAmount]
NoTx ==
    [present |-> FALSE, to |-> Undefined, data |-> Undefined, value |-> Undefined,
     buyAmount |-> Undefined]
BebopSettlement == "0xbbbbbBB520d69a9775E85b458C58c648259FAD5F"
VenueTxs ==
    { NoTx,
      Tx(BebopSettlement, "0xd1", Undefined, Undefined),
      Tx(BebopSettlement, "0xd1", "0x5", Undefined),
      Tx(BebopSettlement, "0xd2", "0x5", "2000") }
VenueResponses ==
    [error : {Undefined, "", "insufficient liquidity"},
     tx : VenueTxs,
     buyAmount : {Undefined, "1999"}]

NoQuote == [tx |-> NoTx, sellAmount |-> <<>>, buyAmount |-> Undefined]
NoResult ==
    [success |-> FALSE, transactionHash |-> Undefined,
     quote |-> [fromToken |-> TokMissing, toToken |-> TokMissing,
                sellAmount |-> <<>>, buyAmount |-> Undefined]]

(***************************************************************************)
(* State of one invocation of swapTokenBebop.                              *)
(*   pc          where the invocation is: "idle" before the call, then the *)
(*               await it is suspended at, then "done" or "failed"         *)
(*   req         the argument of the call                                  *)
(*   calls       the outbound calls issued so far, in order                *)
(*   responses   the answers received so far, in order                     *)
(*   walletInfo  address returned by getWalletAddress                      *)
(*   amountWei   getBebopQuote's local of that name                        *)
(*   quote       value returned by getBebopQuote                           *)
(*   result      value the call resolves to                                *)
(*   error       error the call rejects with                               *)
(***************************************************************************)
VARIABLES pc, req, calls, responses, walletInfo, amountWei, quote, result, error

vars == <<pc, req, calls, responses, walletInfo, amountWei, quote, result, error>>

(***************************************************************************)
(* State of the other operations of the repository, one record each; every *)
(* record has a field pc that says where the operation is.                 *)
(*   withdrawal  one invocation of withdrawSepoliaETH                       *)
(*   script      one run of the test-transaction script                     *)
(*   balances    one invocation of getBalanceByAsset                        *)
(*   cli         one run of a command-line entry point                      *)
(*   inv         two invocations of swapTokenBebop in the same process      *)
(***************************************************************************)
VARIABLES withdrawal, script, balances, cli, inv

others == <<withdrawal, script, balances, cli, inv>>
state == <<vars, others>>

\* withdrawSepoliaETH: its argument.  amountEth is the text of the amount (the
\* text amountEth.toString() gives); sponsorGas may be left out.
SepoliaCaip2 == "eip155:11155111"
SponsorGasArgs ==
    { [given |-> FALSE, value |-> FALSE], [given |-> TRUE, value |-> FALSE],
      [given |-> TRUE, value |-> TRUE] }
Recipients == {TokMissing, TokEmpty, WETH, USDC, UsdcBadSum, WethShort, WethBare, NotHex}
AmountsEth ==
    { NoAmount, <<>>,
      <<"0">>, <<"0", ".", "0", "1">>, <<"1", ".", "5">>, <<"2", "5", "5">>,
      <<"-", "1">>, <<"-", "0">>,
      <<"0", ".", "0","0","0","0","0","0","0","0","0","0","0","0","0","0","0","0","0","0","1">>,
      <<"1", "e", "-", "7">>, <<"a", "b", "c">> }
WithdrawRequests ==
    [walletId : WalletIds, recipientAddress : Recipients, amountEth : AmountsEth,
     sponsorGas : SponsorGasArgs]
NoWithdrawRequest ==
    [walletId |-> Undefined, recipientAddress |-> TokMissing, amountEth |-> NoAmount,
     sponsorGas |-> [given |-> FALSE, value |-> FALSE]]
NoWithdrawResult == [hash |-> Undefined, caip2 |-> Undefined]

WithdrawalIdle ==
    [pc |-> "idle", req |-> NoWithdrawRequest, calls |-> <<>>, responses |-> <<>>,
     amountWeiHex |-> <<>>, result |-> NoWithdrawResult, error |-> NoError]
\* the test-transaction script: the environment it reads, and its state.
\* exitCode is the argument of process.exit, NoExit while it has not been called.
NoExit == -1
Null == <<"null">>
EnvValues == {Undefined, "", "set"}
Caip2Values ==
    {Undefined, "", "eip155:1", "eip155:8453", "eip155:11155111", "eip155:137", "toString"}
Envs ==
    [PRIVY_APP_ID : EnvValues, PRIVY_APP_SECRET : EnvValues, WALLET_ID : EnvValues,
     RECIPIENT_ADDRESS : EnvValues, CAIP2 : Caip2Values]
NoEnv ==
    [PRIVY_APP_ID |-> Undefined, PRIVY_APP_SECRET |-> Undefined, WALLET_ID |-> Undefined,
     RECIPIENT_ADDRESS |-> Undefined, CAIP2 |-> Undefined]
ScriptErr(message, missing) == [message |-> message, missing |-> missing]
NoScriptError == ScriptErr("", <<>>)

ScriptIdle ==
    [pc |-> "idle", env |-> NoEnv, clientCreated |-> FALSE, wallet |-> Undefined,
     calls |-> <<>>, responses |-> <<>>, balance |-> Null, log |-> <<>>,
     exitCode |-> NoExit, error |-> NoScriptError]
\* getBalanceByAsset: MaxBalances bounds the number of entries of data.balances
MaxBalances == 2
NoBalanceRequest == [walletId |-> Undefined, asset |-> Undefined]
NoBalanceResult ==
    [asset |-> Undefined, balances |-> <<>>, balancesByChain |-> [c \in {} |-> Undefined],
     total |-> [amount |-> 0, usd |-> 0, chains |-> 0]]
BalancesIdle ==
    [pc |-> "idle", req |-> NoBalanceRequest, calls |-> <<>>, responses |-> <<>>,
     result |-> NoBalanceResult, error |-> NoError]
\* a command-line entry point: the run (entry point, environment, arguments),
\* the operation it invoked, how that operation ended, and the exit code
NoCall == [op |-> Undefined]
CliIdle ==
    [pc |-> "idle", run |-> [entry |-> Undefined], call |-> NoCall, outcome |-> Undefined,
     exitCode |-> NoExit]
\* two invocations of swapTokenBebop: each has its own copy of the locals
Invocations == {1, 2}
SwapIdle ==
    [pc |-> "idle", req |-> NoRequest, calls |-> <<>>, responses |-> <<>>,
     walletInfo |-> Undefined, amountWei |-> <<>>, quote |-> NoQuote, result |-> NoResult,
     error |-> NoError]
InvIdle == [i \in Invocations |-> SwapIdle]

Init ==
    /\ pc = "idle"
    /\ req = NoRequest
    /\ calls = <<>>
    /\ responses = <<>>
    /\ walletInfo = Undefined
    /\ amountWei = <<>>
    /\ quote = NoQuote
    /\ result = NoResult
    /\ error = NoError
    /\ withdrawal = WithdrawalIdle
    /\ script = ScriptIdle
    /\ balances = BalancesIdle
    /\ cli = CliIdle
    /\ inv = InvIdle

\* a || b
OrElse(a, b) == IF Truthy(a) THEN a ELSE b

\* validate without the check of toToken's form
validateSkipsToToken(r) ==
    IF ~Truthy(r.walletId) THEN Err("walletId is required", "")
    ELSE IF ~Truthy(r.fromToken.text) THEN Err("fromToken address is required", "")
    ELSE IF ~Truthy(r.toToken.text) THEN Err("toToken address is required", "")
    ELSE IF ~AmountTruthy(r.amount) THEN Err("amount is required", "")
    ELSE IF r.fromChain = NoChain THEN Err("fromChain ID is required", "")
    ELSE IF r.toChain # NoChain /\ r.toChain # r.fromChain
    THEN Err("Bebop only supports same-chain swaps. fromChain must equal toChain.", "")
    ELSE IF ~isAddress(r.fromToken) THEN Err("Invalid fromToken address", r.fromToken.text)
    ELSE NoError

\* validate with the address checks moved before the same-chain check
validateAddressFirst(r) ==
    IF ~Truthy(r.walletId) THEN Err("walletId is required", "")
    ELSE IF ~Truthy(r.fromToken.text) THEN Err("fromToken address is required", "")
    ELSE IF ~Truthy(r.toToken.text) THEN Err("toToken address is required", "")
    ELSE IF ~AmountTruthy(r.amount) THEN Err("amount is required", "")
    ELSE IF r.fromChain = NoChain THEN Err("fromChain ID is required", "")
    ELSE IF ~isAddress(r.fromToken) THEN Err("Invalid fromToken address", r.fromToken.text)
    ELSE IF ~isAddress(r.toToken) THEN Err("Invalid toToken address", r.toToken.text)
    ELSE IF r.toChain # NoChain /\ r.toChain # r.fromChain
    THEN Err("Bebop only supports same-chain swaps. fromChain must equal toChain.", "")
    ELSE NoError

\* lines 34-50: the error the validation throws, NoError when it passes
validate(r) ==
    IF ~Truthy(r.walletId) THEN Err("walletId is required", "")
    ELSE IF ~Truthy(r.fromToken.text) THEN Err("fromToken address is required", "")
    ELSE IF ~Truthy(r.toToken.text) THEN Err("toToken address is required", "")
    ELSE IF ~AmountTruthy(r.amount) THEN Err("amount is required", "")
    ELSE IF r.fromChain = NoChain THEN Err("fromChain ID is required", "")
    ELSE IF r.toChain # NoChain /\ r.toChain # r.fromChain
    THEN Err("Bebop only supports same-chain swaps. fromChain must equal toChain.", "")
    ELSE IF ~isAddress(r.fromToken) THEN Err("Invalid fromToken address", r.fromToken.text)
    ELSE IF ~isAddress(r.toToken) THEN Err("Invalid toToken address", r.toToken.text)
    ELSE NoError

\* the outbound calls
WalletsGet(walletId) ==
    [service |-> "custody", op |-> "wallets.get", walletId |-> walletId]
AxiosGet(chainName, params) ==
    [service |-> "venue", op |-> "axios.get", url |-> <<"https://api.bebop.xyz/pmm", chainName, "v3/quote">>,
     params |-> params]
WalletRpc(walletId, caip2, transaction) ==
    [service |-> "custody", op |-> "walletApi.rpc", walletId |-> walletId, caip2 |-> caip2,
     method |-> "eth_sendTransaction", transaction |-> transaction]

\* the answers: the wallet ([address]), the venue's response.data, result.data
\* ([hash]), or the error of a rejection
Returned(value) == [ok |-> TRUE, value |-> value]
Threw(e) == [ok |-> FALSE, value |-> e]

\* a catch block that throws a new error in place of the one it caught
catchWrap(e) == Err("Swap failed", e.message)

\* lines 117-120: the catch block of swapTokenBebop
catchRethrow(e) == e

Fail(e) ==
    /\ pc' = "failed"
    /\ error' = e

\* lines 23-71 and 126-130: validation, then getWalletAddress up to its await
swapTokenBebop ==
    /\ pc = "idle"
    /\ UNCHANGED others
    /\ \E r \in Requests :
       /\ req' = r
       /\ IF validate(r) # NoError
          THEN /\ Fail(validate(r))
               /\ UNCHANGED calls
          ELSE /\ pc' = "resolving"
               /\ calls' = Append(calls, WalletsGet(r.walletId))
               /\ UNCHANGED error
       /\ UNCHANGED <<responses, walletInfo, amountWei, quote, result>>

\* the parameters of the quote request (lines 198-206)
quoteParams(r, walletAddress, wei) ==
    [buy_tokens |-> r.toToken.text, sell_tokens |-> r.fromToken.text, sell_amounts |-> wei,
     taker_address |-> walletAddress, gasless |-> r.gasless, approval_type |-> "Standard"]

\* step 2 submitting the approval (lines 157-168) without awaiting it
approvalNotAwaited(r) ==
    IF ~r.skipApproval
    THEN <<WalletRpc(r.walletId, getCAIP2(r.fromChain),
                     [to |-> r.fromToken.text, data |-> "approve(BEBOP_SETTLEMENT, MaxUint256)",
                      value |-> "0x0"])>>
    ELSE <<>>

\* lines 74-80: the outbound calls step 2 issues.  Both branches only log: the
\* call of ensureTokenApproval on line 77 is commented out.
approvalCalls(r) == IF ~r.skipApproval THEN <<>> ELSE <<>>

\* lines 130-133, 72-93 and 192-210: the wallet is returned; step 2; getBebopQuote
\* up to its await
getWalletAddressReturns ==
    /\ pc = "resolving"
    /\ UNCHANGED others
    /\ \E address \in WalletAddresses :
       /\ responses' = Append(responses, Returned([address |-> address]))
       /\ walletInfo' = address
       /\ IF getChainName(req.fromChain) = Undefined
          THEN /\ Fail(catchRethrow(Err("Unsupported chain ID", "")))
               /\ calls' = calls \o approvalCalls(req)
               /\ UNCHANGED amountWei
          ELSE IF parseEtherStatus(req.amount) # "ok"
          THEN /\ Fail(catchRethrow(Err(parseEtherStatus(req.amount), "")))
               /\ calls' = calls \o approvalCalls(req)
               /\ UNCHANGED amountWei
          ELSE /\ amountWei' = parseEther(req.amount)
               /\ calls' = (calls \o approvalCalls(req))
                              \o <<AxiosGet(getChainName(req.fromChain),
                                            quoteParams(req, address, parseEther(req.amount)))>>
               /\ pc' = "quoting"
               /\ UNCHANGED error
       /\ UNCHANGED <<req, quote, result>>

\* client.wallets().get rejects (line 130)
getWalletAddressThrows ==
    /\ pc = "resolving"
    /\ UNCHANGED others
    /\ \E e \in CustodyErrors :
       /\ responses' = Append(responses, Threw(e))
       /\ Fail(catchRethrow(e))
       /\ UNCHANGED <<req, calls, walletInfo, amountWei, quote, result>>

\* lines 222-226: the value getBebopQuote returns
makeQuote(data, wei) ==
    [tx |-> data.tx, sellAmount |-> wei,
     buyAmount |-> OrElse(data.buyAmount, data.tx.buyAmount)]

\* the transaction without the default of its value
swapTransactionNoDefault(rawTransaction) ==
    [to |-> rawTransaction.to, data |-> rawTransaction.data, value |-> rawTransaction.value]

\* lines 240-244: the transaction executeSwap submits
swapTransaction(rawTransaction) ==
    [to |-> rawTransaction.to, data |-> rawTransaction.data,
     value |-> OrElse(rawTransaction.value, "0x0")]

\* getBebopQuote without the check of the answer's error field
getBebopQuoteIgnoresError(data, wei) ==
    IF ~Truthy(data.buyAmount) /\ ~data.tx.present THEN Threw(TypeErrorUndefined)
    ELSE Returned([tx |-> data.tx, sellAmount |-> wei,
                   buyAmount |-> OrElse(data.buyAmount, data.tx.buyAmount)])

\* lines 218-226: what getBebopQuote does with the venue's answer: it throws or
\* returns the quote.  Reading tx.buyAmount of an undefined tx throws a TypeError.
getBebopQuoteOutcome(data, wei) ==
    IF Truthy(data.error) THEN Threw(Err("Bebop quote error", data.error))
    ELSE IF ~Truthy(data.buyAmount) /\ ~data.tx.present THEN Threw(TypeErrorUndefined)
    ELSE Returned(makeQuote(data, wei))

\* the venue's answer handled with optional chaining on the prepared transaction
\* (rawTransaction?.to), so that a missing tx is submitted as an empty transaction
axiosGetReturnsUnguarded ==
    /\ pc = "quoting"
    /\ UNCHANGED others
    /\ \E data \in VenueResponses :
       /\ responses' = Append(responses, Returned(data))
       /\ IF Truthy(data.error)
          THEN /\ Fail(catchRethrow(Err("Bebop quote error", data.error)))
               /\ UNCHANGED <<calls, quote>>
          ELSE /\ quote' = makeQuote(data, amountWei)
               /\ calls' = Append(calls, WalletRpc(req.walletId, getCAIP2(req.fromChain),
                                                   swapTransaction(quote'.tx)))
               /\ pc' = "executing"
               /\ UNCHANGED error
       /\ UNCHANGED <<req, walletInfo, amountWei, result>>

\* lines 216-226, 95-101 and 232-246: the venue answers; the rest of getBebopQuote;
\* executeSwap up to its await.  Reading rawTransaction.to of an undefined tx
\* (line 241) throws a TypeError before the call is issued.
axiosGetReturns ==
    /\ pc = "quoting"
    /\ UNCHANGED others
    /\ \E data \in VenueResponses :
       /\ responses' = Append(responses, Returned(data))
       /\ IF ~getBebopQuoteOutcome(data, amountWei).ok
          THEN /\ Fail(catchRethrow(getBebopQuoteOutcome(data, amountWei).value))
               /\ UNCHANGED <<calls, quote>>
          ELSE /\ quote' = getBebopQuoteOutcome(data, amountWei).value
               /\ IF ~quote'.tx.present
                  THEN /\ Fail(catchRethrow(TypeErrorUndefined))
                       /\ UNCHANGED calls
                  ELSE /\ calls' = Append(calls, WalletRpc(req.walletId, getCAIP2(req.fromChain),
                                                           swapTransaction(quote'.tx)))
                       /\ pc' = "executing"
                       /\ UNCHANGED error
       /\ UNCHANGED <<req, walletInfo, amountWei, result>>

\* axios.get rejects: a non-2xx status or a network failure (line 210)
axiosGetThrows ==
    /\ pc = "quoting"
    /\ UNCHANGED others
    /\ \E e \in HttpErrors :
       /\ responses' = Append(responses, Threw(e))
       /\ Fail(catchRethrow(e))
       /\ UNCHANGED <<req, calls, walletInfo, amountWei, quote, result>>

\* a result that echoes the request's tokens in the wrong fields
swapResultSwapsTokens(r, txHash, q) ==
    [success |-> TRUE, transactionHash |-> txHash,
     quote |-> [fromToken |-> r.toToken, toToken |-> r.fromToken,
                sellAmount |-> q.sellAmount, buyAmount |-> q.buyAmount]]

\* lines 107-116: the value swapTokenBebop returns
swapResult(r, txHash, q) ==
    [success |-> TRUE, transactionHash |-> txHash,
     quote |-> [fromToken |-> r.fromToken, toToken |-> r.toToken,
                sellAmount |-> q.sellAmount, buyAmount |-> q.buyAmount]]

\* the answer of the submission received by a continuation that never resumes
\* swapTokenBebop
walletRpcReturnsSuspended ==
    /\ pc = "executing"
    /\ UNCHANGED others
    /\ \E hash \in Hashes :
       /\ responses' = Append(responses, Returned([hash |-> hash]))
       /\ pc' = "suspended"
       /\ UNCHANGED <<req, calls, walletInfo, amountWei, quote, result, error>>

\* lines 248 and 101-116: the custody service answers the submission
walletRpcReturns ==
    /\ pc = "executing"
    /\ UNCHANGED others
    /\ \E hash \in Hashes :
       /\ responses' = Append(responses, Returned([hash |-> hash]))
       /\ result' = swapResult(req, hash, quote)
       /\ pc' = "done"
       /\ UNCHANGED <<req, calls, walletInfo, amountWei, quote, error>>

\* client.walletApi.rpc rejects (line 235)
walletRpcThrows ==
    /\ pc = "executing"
    /\ UNCHANGED others
    /\ \E e \in CustodyErrors :
       /\ responses' = Append(responses, Threw(e))
       /\ Fail(catchRethrow(e))
       /\ UNCHANGED <<req, calls, walletInfo, amountWei, quote, result>>

Next ==
    \/ swapTokenBebop
    \/ getWalletAddressReturns
    \/ getWalletAddressThrows
    \/ axiosGetReturns
    \/ axiosGetThrows
    \/ walletRpcReturns
    \/ walletRpcThrows

Spec == Init /\ [][Next]_vars

\* Every outbound call is eventually answered, by a value or by an error.
Responsive ==
    /\ WF_vars(getWalletAddressReturns \/ getWalletAddressThrows)
    /\ WF_vars(axiosGetReturns \/ axiosGetThrows)
    /\ WF_vars(walletRpcReturns \/ walletRpcThrows)

\* the invocation under services that answer every call
LiveSpec == Init /\ [][Next]_vars /\ Responsive

(***************************************************************************)
(* withdrawSepoliaETH.                                                     *)
(***************************************************************************)
HexDigits == <<"0", "1", "2", "3", "4", "5", "6", "7", "8", "9", "a", "b", "c", "d", "e", "f">>
DigitValue(c) == CHOOSE v \in 0..15 : HexDigits[v + 1] = c

\* quotient and remainder of the decimal digit string s divided by 16
RECURSIVE DivideBy16(_, _, _)
DivideBy16(s, quotient, remainder) ==
    IF s = <<>> THEN [quotient |-> quotient, remainder |-> remainder]
    ELSE LET cur == remainder * 10 + DigitValue(Head(s))
         IN  DivideBy16(Tail(s), Append(quotient, HexDigits[(cur \div 16) + 1]), cur % 16)

\* value.toString(16) of a non-negative BigInt given by its decimal digits
RECURSIVE HexOf(_)
HexOf(s) ==
    IF StripZeros(s) = <<>> THEN <<>>
    ELSE LET d == DivideBy16(StripZeros(s), <<>>, 0)
         IN  Append(HexOf(d.quotient), HexDigits[d.remainder + 1])
toString16(s) == IF HexOf(s) = <<>> THEN <<"0">> ELSE HexOf(s)

\* ethers.toBeHex: "ok", or the message of the error getUint throws
toBeHexStatus(wei) ==
    IF Head(wei) = "-" THEN "unsigned value cannot be negative" ELSE "ok"

\* a conversion that writes the decimal digits after "0x"
toBeHexDecimal(wei) == <<"0", "x">> \o wei

\* ethers.toBeHex without a width: "0x" and the hexadecimal digits, padded to an
\* even number of digits
toBeHex(wei) ==
    <<"0", "x">> \o (IF Len(toString16(wei)) % 2 = 1 THEN <<"0">> \o toString16(wei)
                     ELSE toString16(wei))

\* the default of the parameter sponsorGas (line 21)
sponsorGasOf(arg) == IF arg.given THEN arg.value ELSE FALSE

\* lines 23-29: the error the checks throw, NoError when they pass
withdrawValidate(r) ==
    IF ~Truthy(r.walletId) THEN Err("walletId is required", "")
    ELSE IF ~Truthy(r.recipientAddress.text) THEN Err("recipientAddress is required", "")
    ELSE IF ~AmountTruthy(r.amountEth) THEN Err("amountEth is required", "")
    ELSE IF ~isAddress(r.recipientAddress)
    THEN Err("Invalid recipient address", r.recipientAddress.text)
    ELSE NoError

\* line 36: the error the conversion throws, NoError when it succeeds
amountWeiHexError(amountEth) ==
    IF parseEtherStatus(amountEth) # "ok" THEN Err(parseEtherStatus(amountEth), "")
    ELSE IF toBeHexStatus(parseEther(amountEth)) # "ok"
    THEN Err(toBeHexStatus(parseEther(amountEth)), "")
    ELSE NoError

\* lines 48-59: the call of client.walletApi.rpc
WithdrawRpc(walletId, caip2, to, value, sponsor) ==
    [service |-> "custody", op |-> "walletApi.rpc", walletId |-> walletId, caip2 |-> caip2,
     method |-> "eth_sendTransaction", transaction |-> [to |-> to, value |-> value],
     sponsor |-> sponsor]

WithdrawFail(r, e) ==
    withdrawal' = [withdrawal EXCEPT !.pc = "failed", !.req = r, !.error = e]

\* lines 17-59: the checks, the conversion, and the call up to its await
withdrawSepoliaETH ==
    /\ withdrawal.pc = "idle"
    /\ UNCHANGED <<vars, script, balances, cli, inv>>
    /\ \E r \in WithdrawRequests :
          IF withdrawValidate(r) # NoError THEN WithdrawFail(r, withdrawValidate(r))
          ELSE IF amountWeiHexError(r.amountEth) # NoError
          THEN WithdrawFail(r, amountWeiHexError(r.amountEth))
          ELSE withdrawal' =
                  [withdrawal EXCEPT
                      !.pc = "sending",
                      !.req = r,
                      !.amountWeiHex = toBeHex(parseEther(r.amountEth)),
                      !.calls = <<WithdrawRpc(r.walletId, SepoliaCaip2, r.recipientAddress.text,
                                              toBeHex(parseEther(r.amountEth)),
                                              sponsorGasOf(r.sponsorGas))>>]

\* lines 61-66: the custody service answers; result.data is returned
withdrawRpcReturns ==
    /\ withdrawal.pc = "sending"
    /\ UNCHANGED <<vars, script, balances, cli, inv>>
    /\ \E hash \in Hashes :
          withdrawal' = [withdrawal EXCEPT
                            !.pc = "done",
                            !.responses = Append(@, Returned([hash |-> hash, caip2 |-> SepoliaCaip2])),
                            !.result = [hash |-> hash, caip2 |-> SepoliaCaip2]]

\* lines 67-73: client.walletApi.rpc rejects; the catch block rethrows the error
withdrawRpcThrows ==
    /\ withdrawal.pc = "sending"
    /\ UNCHANGED <<vars, script, balances, cli, inv>>
    /\ \E e \in CustodyErrors :
          withdrawal' = [withdrawal EXCEPT
                            !.pc = "failed",
                            !.responses = Append(@, Threw(e)),
                            !.error = e]

WithdrawNext ==
    \/ withdrawSepoliaETH
    \/ withdrawRpcReturns
    \/ withdrawRpcThrows

WithdrawSpec == Init /\ [][WithdrawNext]_state

(***************************************************************************)
(* The test-transaction script (src/test-transaction/index.js).            *)
(***************************************************************************)
required == <<"PRIVY_APP_ID", "PRIVY_APP_SECRET", "WALLET_ID", "RECIPIENT_ADDRESS", "CAIP2">>

\* lines 18-22: the keys whose value is falsy, in the order of required
missing(env) == SelectSeq(required, LAMBDA key : ~Truthy(env[key]))

rpcUrls ==
    [c \in {"eip155:1", "eip155:8453", "eip155:11155111"} |->
        CASE c = "eip155:1" -> "https://eth.llamarpc.com"
          [] c = "eip155:8453" -> "https://mainnet.base.org"
          [] c = "eip155:11155111" -> "https://rpc.sepolia.org"]

\* line 68: rpcUrls[process.env.CAIP2]; a key such as "toString" finds the
\* function inherited from Object.prototype, written "[Function]"
rpcUrlOf(caip2) ==
    IF caip2 \in DOMAIN rpcUrls THEN rpcUrls[caip2]
    ELSE IF caip2 = "toString" THEN "[Function]"
    ELSE Undefined

BalanceAddress == "0x0a1f55b674F8eB4f6988BD2725A10b30a7451783"
BalanceValues == {<<"0">>, <<"1", "0", "0">>}
RpcErrors == {ScriptErr("could not detect network", <<>>), ScriptErr("server error", <<>>)}

\* line 75: the call of provider.getBalance
ProviderGetBalance(rpcUrl, walletAddress) ==
    [service |-> "rpc", url |-> rpcUrl, method |-> "eth_getBalance", address |-> walletAddress]

\* what a function call gives its caller: a value, or an error thrown
Gave(value) == [threw |-> FALSE, value |-> value, error |-> NoScriptError]
Raised(e) == [threw |-> TRUE, value |-> Null, error |-> e]

\* a catch block of getBalance that rethrows the error, as getWalletInfo's does
getBalanceRethrows(e) == Raised(e)

\* lines 82-85: the catch block of getBalance
getBalanceCatch(e) == Gave(Null)

\* step 5 with the call of sendTestTransaction (lines 97-107) in place
sendTestTransactionUncommented(s) ==
    <<[service |-> "custody", url |-> Undefined, method |-> "eth_sendTransaction",
       address |-> s.env.WALLET_ID]>>

\* lines 187-195: the outbound calls step 5 issues.  The call of
\* sendTestTransaction on line 192 is commented out.
stepFiveCalls(s) == <<>>

\* lines 185-206: main resumes with the outcome of getBalance
afterGetBalance(s, outcome, logged) ==
    IF outcome.threw
    THEN [s EXCEPT !.pc = "exited", !.exitCode = 1, !.error = outcome.error,
                   !.log = (@ \o logged) \o <<"Test failed">>]
    ELSE [s EXCEPT !.pc = "completed", !.balance = outcome.value,
                   !.calls = @ \o stepFiveCalls(s),
                   !.log = (@ \o logged)
                              \o <<"Transaction sending is commented out for safety.",
                                   "All tests completed successfully!">>]

\* lines 171-180: steps 1 to 3 of main, for an environment that is complete
stepsOneToThree(s, env) ==
    [s EXCEPT !.env = env, !.clientCreated = TRUE, !.wallet = env.WALLET_ID,
              !.log = <<"Configuration validated", "Privy client initialized">>]

\* lines 163-185 and 57-75: main from its start to the await of
\* provider.getBalance, or to its end when getBalance does not reach it
main ==
    /\ script.pc = "idle"
    /\ UNCHANGED <<vars, withdrawal, balances, cli, inv>>
    /\ \E env \in Envs :
          IF missing(env) # <<>>
          THEN script' = [script EXCEPT
                             !.pc = "exited", !.env = env, !.exitCode = 1,
                             !.error = ScriptErr("Missing required environment variables",
                                                 missing(env)),
                             !.log = <<"Test failed">>]
          ELSE IF ~Truthy(rpcUrlOf(env.CAIP2))
          THEN script' = afterGetBalance(stepsOneToThree(script, env), Gave(Null),
                                         <<"No RPC URL configured for chain">>)
          ELSE IF rpcUrlOf(env.CAIP2) = "[Function]"
          THEN script' = afterGetBalance(stepsOneToThree(script, env),
                                         getBalanceCatch(ScriptErr("TypeError", <<>>)),
                                         <<"Error fetching balance">>)
          ELSE script' = [stepsOneToThree(script, env) EXCEPT
                             !.pc = "balance",
                             !.calls = <<ProviderGetBalance(rpcUrlOf(env.CAIP2), BalanceAddress)>>]

\* lines 75-81: the RPC endpoint answers with the balance
providerGetBalanceReturns ==
    /\ script.pc = "balance"
    /\ UNCHANGED <<vars, withdrawal, balances, cli, inv>>
    /\ \E balance \in BalanceValues :
          script' = afterGetBalance([script EXCEPT !.responses = Append(@, Returned(balance))],
                                    Gave(balance), <<"Balance">>)

\* lines 75 and 82-85: provider.getBalance rejects
providerGetBalanceThrows ==
    /\ script.pc = "balance"
    /\ UNCHANGED <<vars, withdrawal, balances, cli, inv>>
    /\ \E e \in RpcErrors :
          script' = afterGetBalance([script EXCEPT !.responses = Append(@, Threw(e))],
                                    getBalanceCatch(e), <<"Error fetching balance">>)

ScriptNext ==
    \/ main
    \/ providerGetBalanceReturns
    \/ providerGetBalanceThrows

ScriptSpec == Init /\ [][ScriptNext]_state

(***************************************************************************)
(* getBalanceByAsset (src/api/get-balance-by-asset.js).                    *)
(***************************************************************************)
Assets == {Undefined, "eth", "usdc", "doge"}
BalanceRequests == [walletId : {Undefined, "w1"}, asset : Assets]

chainsByAsset ==
    [a \in {"eth", "usdc", "usdt", "pol", "sol"} |->
        CASE a = "eth" -> <<"ethereum", "base", "arbitrum", "optimism", "linea", "zksync_era",
                            "polygon", "sepolia">>
          [] a = "usdc" -> <<"ethereum", "base", "arbitrum", "optimism", "linea", "polygon",
                             "sepolia">>
          [] a = "usdt" -> <<"ethereum", "polygon", "arbitrum", "optimism", "sepolia">>
          [] a = "pol" -> <<"polygon">>
          [] a = "sol" -> <<"solana", "sepolia">>]

\* line 32 (the assets of the model are in lower case)
chainsOf(asset) ==
    IF asset \in DOMAIN chainsByAsset THEN chainsByAsset[asset]
    ELSE <<"ethereum", "base", "polygon">>

\* lines 41-50: the call of fetch
Fetch(walletId, asset, chainList) ==
    [service |-> "custody", op |-> "fetch", method |-> "GET",
     url |-> <<"https://api.privy.io/v1/wallets", walletId, "balance">>,
     asset |-> asset, chain |-> chainList, include_currency |-> "usd"]

\* the entries of data.balances: display_values holds texts of numbers, or
\* Undefined for a key the entry does not have
DisplayValues ==
    [eth : {Undefined, "1", "2"}, usdc : {Undefined, "3"}, sol : {Undefined},
     doge : {Undefined}, usd : {Undefined, "5"}]
BalanceEntries ==
    [chain : {"ethereum", "base"}, raw_value : {"1000"}, raw_value_decimals : {6},
     display_values : DisplayValues]
BalanceLists == UNION {[1..n -> BalanceEntries] : n \in 0..MaxBalances}
ApiErrors == {[status |-> 401, text |-> "unauthorized"], [status |-> 404, text |-> "not found"]}

\* parseFloat of the texts of the model
parseFloat(text) ==
    CASE text = "0" -> 0
      [] text = "1" -> 1
      [] text = "2" -> 2
      [] text = "3" -> 3
      [] text = "5" -> 5

\* lines 65-68
displayValue(balance, asset) ==
    parseFloat(OrElse(balance.display_values[asset],
                      OrElse(balance.display_values.eth,
                             OrElse(balance.display_values.sol, "0"))))
usdValue(balance) == parseFloat(OrElse(balance.display_values.usd, "0"))

\* lines 60-79: the totals and the table after the first n entries
RECURSIVE totalAmount(_, _, _)
totalAmount(list, asset, n) ==
    IF n = 0 THEN 0 ELSE totalAmount(list, asset, n - 1) + displayValue(list[n], asset)

RECURSIVE totalUSD(_, _)
totalUSD(list, n) == IF n = 0 THEN 0 ELSE totalUSD(list, n - 1) + usdValue(list[n])

RECURSIVE balancesByChain(_, _, _)
balancesByChain(list, asset, n) ==
    IF n = 0 THEN [c \in {} |-> Undefined]
    ELSE LET before == balancesByChain(list, asset, n - 1)
             entry == [raw |-> list[n].raw_value, decimals |-> list[n].raw_value_decimals,
                       amount |-> displayValue(list[n], asset), usd |-> usdValue(list[n])]
         IN  [c \in (DOMAIN before) \cup {list[n].chain} |->
                 IF c = list[n].chain THEN entry ELSE before[c]]

\* lines 97-106: the value getBalanceByAsset returns
balanceResult(asset, list) ==
    [asset |-> asset, balances |-> list,
     balancesByChain |-> balancesByChain(list, asset, Len(list)),
     total |-> [amount |-> totalAmount(list, asset, Len(list)),
                usd |-> totalUSD(list, Len(list)),
                chains |-> Cardinality(DOMAIN balancesByChain(list, asset, Len(list)))]]

\* lines 13-50: up to the await of fetch; asset.toUpperCase() of an undefined
\* asset throws a TypeError that the catch block rethrows
getBalanceByAsset ==
    /\ balances.pc = "idle"
    /\ UNCHANGED <<vars, withdrawal, script, cli, inv>>
    /\ \E r \in BalanceRequests :
          IF r.asset = Undefined
          THEN balances' = [balances EXCEPT !.pc = "failed", !.req = r,
                                            !.error = TypeErrorUndefined]
          ELSE balances' = [balances EXCEPT
                               !.pc = "fetching", !.req = r,
                               !.calls = <<Fetch(r.walletId, r.asset, chainsOf(r.asset))>>]

\* lines 52-106: the service answers with a 2xx status and the balances
fetchReturns ==
    /\ balances.pc = "fetching"
    /\ UNCHANGED <<vars, withdrawal, script, cli, inv>>
    /\ \E list \in BalanceLists :
          balances' = [balances EXCEPT
                          !.pc = "done",
                          !.responses = Append(@, Returned([balances |-> list])),
                          !.result = balanceResult(balances.req.asset, list)]

\* lines 52-55 and 107-110: the service answers with another status
fetchNotOk ==
    /\ balances.pc = "fetching"
    /\ UNCHANGED <<vars, withdrawal, script, cli, inv>>
    /\ \E e \in ApiErrors :
          balances' = [balances EXCEPT
                          !.pc = "failed",
                          !.responses = Append(@, Threw(Err("API Error", e.text))),
                          !.error = Err("API Error", e.text)]

\* lines 43 and 107-110: fetch rejects
fetchThrows ==
    /\ balances.pc = "fetching"
    /\ UNCHANGED <<vars, withdrawal, script, cli, inv>>
    /\ \E e \in HttpErrors :
          balances' = [balances EXCEPT
                          !.pc = "failed",
                          !.responses = Append(@, Threw(e)),
                          !.error = e]

BalanceNext ==
    \/ getBalanceByAsset
    \/ fetchReturns
    \/ fetchNotOk
    \/ fetchThrows

BalanceSpec == Init /\ [][BalanceNext]_state

(***************************************************************************)
(* The command-line entry points: swap (part_000), Sepolia withdrawal      *)
(* (part_001), balance by asset and wallet balance (src/api).  A run gives *)
(* the environment variables the entry point reads and its arguments       *)
(* (Undefined for an argument that is not there).                          *)
(***************************************************************************)
SwapRuns ==
    [entry : {"swap"}, WALLET_ID : WalletIds,
     fromToken : {TokMissing, WETH, WethShort}, toToken : {TokEmpty, USDC, NotHex},
     amount : {NoAmount, <<"1">>, <<"a", "b", "c">>},
     chainArg : {Undefined, "8453", "abc", "5"}, gasless : BOOLEAN]
WithdrawRuns ==
    [entry : {"withdraw"}, WALLET_ID : WalletIds,
     amountArg : {NoAmount, <<"0", ".", "0", "1">>, <<"-", "1">>},
     recipientArg : {TokMissing, WETH, NotHex}, WITHDRAW_RECIPIENT : {TokMissing, USDC},
     sponsor : BOOLEAN]
BalanceAssetRuns ==
    [entry : {"balance-asset"}, WALLET_ID : WalletIds,
     assetArg : {Undefined, "usdc", "USDC", "doge"}]
WalletBalanceRuns ==
    [entry : {"wallet-balance"}, WALLET_ID : WalletIds,
     command : {Undefined, "eth", "usdc", "all", "custom", "help"},
     arg3 : {Undefined, "usdt"}, arg4 : {Undefined, "polygon"}]
CliRuns == SwapRuns \cup WithdrawRuns \cup BalanceAssetRuns \cup WalletBalanceRuns

\* parseInt(process.argv[5]) || 8453 (part_000 line 309): NaN and 0 are falsy
chainIdOf(chainArg) ==
    CASE chainArg = "8453" -> 8453
      [] chainArg = "5" -> 5
      [] OTHER -> 8453

toLowerCase(text) == IF text = "USDC" THEN "usdc" ELSE text

validAssets == {"eth", "usdc", "usdt", "pol", "sol"}

Exit(code) == [exit |-> code, call |-> NoCall]
Invoke(op, args) == [exit |-> NoExit, call |-> [op |-> op, args |-> args]]

\* part_000 lines 305-342
swapCli(run) ==
    IF ~Truthy(run.WALLET_ID) THEN Exit(1)
    ELSE IF ~Truthy(run.fromToken.text) \/ ~Truthy(run.toToken.text) \/ ~AmountTruthy(run.amount)
    THEN Exit(1)
    ELSE Invoke("swapTokenBebop",
                [walletId |-> run.WALLET_ID, fromToken |-> run.fromToken,
                 toToken |-> run.toToken, amount |-> run.amount,
                 fromChain |-> chainIdOf(run.chainArg), toChain |-> chainIdOf(run.chainArg),
                 gasless |-> run.gasless, skipApproval |-> FALSE])

\* part_001 lines 83-110
withdrawCli(run) ==
    LET recipientArg == IF Truthy(run.recipientArg.text) THEN run.recipientArg
                        ELSE run.WITHDRAW_RECIPIENT
    IN  IF ~Truthy(run.WALLET_ID) THEN Exit(1)
        ELSE IF ~AmountTruthy(run.amountArg) THEN Exit(1)
        ELSE IF ~Truthy(recipientArg.text) THEN Exit(1)
        ELSE Invoke("withdrawSepoliaETH",
                    [walletId |-> run.WALLET_ID, recipientAddress |-> recipientArg,
                     amountEth |-> run.amountArg,
                     sponsorGas |-> [given |-> TRUE, value |-> run.sponsor]])

\* get-balance-by-asset.js lines 137-153
balanceAssetCli(run) ==
    LET asset == OrElse(run.assetArg, "eth")
    IN  IF ~Truthy(run.WALLET_ID) THEN Exit(1)
        ELSE IF toLowerCase(asset) \notin validAssets THEN Exit(1)
        ELSE Invoke("getBalanceByAsset",
                    [walletId |-> run.WALLET_ID, asset |-> toLowerCase(asset)])

\* get-wallet-balance.js lines 176-193: the usage text is printed on the output
\* stream and the process exits with this code
usageExit == 0

\* get-wallet-balance.js lines 131-194
walletBalanceCli(run) ==
    IF ~Truthy(run.WALLET_ID) THEN Exit(1)
    ELSE IF run.command = "eth"
    THEN Invoke("getETHBalance", [walletId |-> run.WALLET_ID, chain |-> OrElse(run.arg3, "base")])
    ELSE IF run.command = "usdc"
    THEN Invoke("getUSDCBalance", [walletId |-> run.WALLET_ID, chain |-> OrElse(run.arg3, "base")])
    ELSE IF run.command = "all"
    THEN Invoke("getAllBalances", [walletId |-> run.WALLET_ID, chains |-> run.arg3])
    ELSE IF run.command = "custom"
    THEN Invoke("getWalletBalance",
                [walletId |-> run.WALLET_ID, asset |-> OrElse(run.arg3, "eth"),
                 chain |-> OrElse(run.arg4, "base")])
    ELSE Exit(usageExit)

entryPoint(run) ==
    CASE run.entry = "swap" -> swapCli(run)
      [] run.entry = "withdraw" -> withdrawCli(run)
      [] run.entry = "balance-asset" -> balanceAssetCli(run)
      [] run.entry = "wallet-balance" -> walletBalanceCli(run)

\* whether the operation can return a value: it cannot when its own checks
\* throw, whatever the services answer (part_000 lines 34-50, 192-196;
\* part_001 lines 23-36)
mayResolve(call) ==
    CASE call.op = "swapTokenBebop" ->
            /\ validate(call.args) = NoError
            /\ getChainName(call.args.fromChain) # Undefined
            /\ parseEtherStatus(call.args.amount) = "ok"
      [] call.op = "withdrawSepoliaETH" ->
            /\ withdrawValidate(call.args) = NoError
            /\ amountWeiHexError(call.args.amountEth) = NoError
      [] OTHER -> TRUE

\* the handler given to .then: the exit code
onFulfilled(value) == 0

\* a rejection handler that reports success
onRejectedExitsZero(e) == 0

\* the handler given to .catch: the exit code
onRejected(e) == 1

\* the entry point runs up to the call of its operation, or exits
cliStart ==
    /\ cli.pc = "idle"
    /\ UNCHANGED <<vars, withdrawal, script, balances, inv>>
    /\ \E run \in CliRuns :
          IF entryPoint(run).exit # NoExit
          THEN cli' = [cli EXCEPT !.pc = "exited", !.run = run,
                                  !.exitCode = entryPoint(run).exit]
          ELSE cli' = [cli EXCEPT !.pc = "running", !.run = run,
                                  !.call = entryPoint(run).call]

\* the operation returns: .then
operationResolves ==
    /\ cli.pc = "running"
    /\ mayResolve(cli.call)
    /\ UNCHANGED <<vars, withdrawal, script, balances, inv>>
    /\ cli' = [cli EXCEPT !.pc = "exited", !.outcome = "resolved",
                          !.exitCode = onFulfilled(cli.call)]

\* the operation throws: .catch
operationRejects ==
    /\ cli.pc = "running"
    /\ UNCHANGED <<vars, withdrawal, script, balances, inv>>
    /\ cli' = [cli EXCEPT !.pc = "exited", !.outcome = "rejected",
                          !.exitCode = onRejected(cli.call)]

CliNext ==
    \/ cliStart
    \/ operationResolves
    \/ operationRejects

CliSpec == Init /\ [][CliNext]_state

(***************************************************************************)
(* Two invocations of swapTokenBebop in one process.  The steps of an      *)
(* invocation are those of the single invocation above, written as         *)
(* functions of the invocation's own record of locals.                     *)
(***************************************************************************)
BaseRequest ==
    [walletId |-> "w1", fromToken |-> WETH, toToken |-> USDC, amount |-> <<"1">>,
     fromChain |-> 8453, toChain |-> NoChain, gasless |-> FALSE, skipApproval |-> FALSE]
ConcRequests ==
    { BaseRequest,
      [BaseRequest EXCEPT !.amount = <<"1", ".", "5">>, !.fromChain = 1, !.toChain = 1,
                          !.skipApproval = TRUE],
      [BaseRequest EXCEPT !.toToken = NotHex],
      [BaseRequest EXCEPT !.fromChain = 5],
      [BaseRequest EXCEPT !.amount = <<"a", "b", "c">>] }
ConcVenueResponses ==
    {d \in VenueResponses : d.error # "" /\ d.buyAmount # Undefined}

\* the answers the call an invocation is suspended at may get
AnswersAt(stage) ==
    CASE stage = "resolving" ->
            {Returned([address |-> a]) : a \in WalletAddresses} \cup {Threw(e) : e \in CustodyErrors}
      [] stage = "quoting" ->
            {Returned(d) : d \in ConcVenueResponses} \cup {Threw(e) : e \in HttpErrors}
      [] stage = "executing" ->
            {Returned([hash |-> h]) : h \in Hashes} \cup {Threw(e) : e \in CustodyErrors}
      [] OTHER -> {}

failed(st, e) == [st EXCEPT !.pc = "failed", !.error = catchRethrow(e)]

\* lines 23-71: the invocation from its call to its first await
started(st, r) ==
    IF validate(r) # NoError
    THEN [st EXCEPT !.pc = "failed", !.req = r, !.error = validate(r)]
    ELSE [st EXCEPT !.pc = "resolving", !.req = r, !.calls = <<WalletsGet(r.walletId)>>]

\* lines 130-133, 72-93, 192-210: the wallet is returned
afterWallet(st, address) ==
    IF getChainName(st.req.fromChain) = Undefined
    THEN failed([st EXCEPT !.walletInfo = address, !.calls = @ \o approvalCalls(st.req)],
                Err("Unsupported chain ID", ""))
    ELSE IF parseEtherStatus(st.req.amount) # "ok"
    THEN failed([st EXCEPT !.walletInfo = address, !.calls = @ \o approvalCalls(st.req)],
                Err(parseEtherStatus(st.req.amount), ""))
    ELSE [st EXCEPT
             !.pc = "quoting",
             !.walletInfo = address,
             !.amountWei = parseEther(st.req.amount),
             !.calls = (@ \o approvalCalls(st.req))
                          \o <<AxiosGet(getChainName(st.req.fromChain),
                                        quoteParams(st.req, address, parseEther(st.req.amount)))>>]

\* lines 216-226, 95-101, 232-246: the venue answers; wei is the value read from
\* amountWei on line 224
afterQuote(st, data, wei) ==
    IF ~getBebopQuoteOutcome(data, wei).ok
    THEN failed(st, getBebopQuoteOutcome(data, wei).value)
    ELSE IF ~getBebopQuoteOutcome(data, wei).value.tx.present
    THEN failed([st EXCEPT !.quote = getBebopQuoteOutcome(data, wei).value], TypeErrorUndefined)
    ELSE [st EXCEPT
             !.pc = "executing",
             !.quote = getBebopQuoteOutcome(data, wei).value,
             !.calls = Append(@, WalletRpc(st.req.walletId, getCAIP2(st.req.fromChain),
                                           swapTransaction(data.tx)))]

\* lines 248, 101-116: the submission is answered
afterSubmission(st, hash) ==
    [st EXCEPT !.pc = "done", !.result = swapResult(st.req, hash, st.quote)]

\* the invocation resumes with the answer to the call it is suspended at
resumed(st, answer, wei) ==
    LET got == [st EXCEPT !.responses = Append(@, answer)]
    IN  IF ~answer.ok THEN failed(got, answer.value)
        ELSE CASE st.pc = "resolving" -> afterWallet(got, answer.value.address)
               [] st.pc = "quoting" -> afterQuote(got, answer.value, wei)
               [] st.pc = "executing" -> afterSubmission(got, answer.value.hash)

\* amountWei kept in a variable of the module, which the invocation that
\* reached the quote stage last has overwritten
amountWeiOfModule(all, i) ==
    IF \E j \in Invocations \ {i} : all[j].amountWei # <<>>
    THEN all[CHOOSE j \in Invocations \ {i} : all[j].amountWei # <<>>].amountWei
    ELSE all[i].amountWei

\* line 196: amountWei is a const of the call of getBebopQuote, so that the
\* read on line 224 gives the value that very call computed
amountWeiRead(all, i) == all[i].amountWei

invoke(i) ==
    /\ inv[i].pc = "idle"
    /\ UNCHANGED <<vars, withdrawal, script, balances, cli>>
    /\ \E r \in ConcRequests : inv' = [inv EXCEPT ![i] = started(inv[i], r)]

answered(i) ==
    /\ inv[i].pc \in {"resolving", "quoting", "executing"}
    /\ UNCHANGED <<vars, withdrawal, script, balances, cli>>
    /\ \E answer \in AnswersAt(inv[i].pc) :
          inv' = [inv EXCEPT ![i] = resumed(inv[i], answer, amountWeiRead(inv, i))]

ConcNext == \E i \in Invocations : invoke(i) \/ answered(i)

ConcSpec == Init /\ [][ConcNext]_state

(***************************************************************************)
(* Vocabulary of the properties.                                           *)
(***************************************************************************)
Invoked == pc # "idle"

\* the five required fields are present
Present(r) ==
    /\ Truthy(r.walletId)
    /\ Truthy(r.fromToken.text)
    /\ Truthy(r.toToken.text)
    /\ AmountTruthy(r.amount)
    /\ r.fromChain # NoChain

WellFormedTokens(r) == isAddress(r.fromToken) /\ isAddress(r.toToken)

\* a destination chain is supplied and differs from the source chain
CrossChain(r) == r.toChain # NoChain /\ r.toChain # r.fromChain

SupportedChains == {1, 8453, 137, 42161, 10, 11155111}

\* a decimal number with at most 18 fractional digits
DecimalUpTo18(a) == MatchesFixed(a) /\ Len(DecimalPart(a)) <= EtherDecimals

\* a decimal number with no non-zero digit after the 18th fractional digit
EtherAmount(a) ==
    /\ MatchesFixed(a)
    /\ \A i \in 1..Len(DecimalPart(a)) : i > EtherDecimals => DecimalPart(a)[i] = "0"

CrossChainError ==
    Err("Bebop only supports same-chain swaps. fromChain must equal toChain.", "")
UnsupportedChainError == Err("Unsupported chain ID", "")

IsSubmission(c) == c.op = "walletApi.rpc"
Submissions == {i \in 1..Len(calls) : IsSubmission(calls[i])}
VenueCalls == {i \in 1..Len(calls) : calls[i].op = "axios.get"}

\* C1: a call in which a required field is missing or a token is not a
\* well-formed address is rejected with an error, and the invocation has issued
\* no network call.
C1_RejectedBeforeNetwork ==
    (Invoked /\ (~Present(req) \/ ~WellFormedTokens(req)))
        => (pc = "failed" /\ error # NoError /\ calls = <<>>)

C1_Witness ==
    /\ pc = "failed"
    /\ Present(req)
    /\ ~CrossChain(req)
    /\ isAddress(req.fromToken)
    /\ ~isAddress(req.toToken)
    /\ error = Err("Invalid toToken address", req.toToken.text)
    /\ calls = <<>>

\* C2 as stated: whenever a destination chain is supplied and differs from the
\* source chain, the call is rejected with the cross-chain error, whatever the
\* other fields are.
C2_Original ==
    (Invoked /\ CrossChain(req)) => (pc = "failed" /\ error = CrossChainError)

\* C2 amended: when the five required fields are present and a destination chain
\* is supplied that differs from the source chain, the call is rejected with the
\* cross-chain error before any network call, whatever the form of the tokens
\* and of the amount.
C2_CrossChainRejected ==
    (Invoked /\ Present(req) /\ CrossChain(req))
        => (pc = "failed" /\ error = CrossChainError /\ calls = <<>>)

C2_Witness ==
    /\ pc = "failed"
    /\ Present(req)
    /\ CrossChain(req)
    /\ ~isAddress(req.fromToken)
    /\ ~EtherAmount(req.amount)
    /\ error = CrossChainError

\* valid but for the chain and the amount
ValidButChainAndAmount(r) == Present(r) /\ ~CrossChain(r) /\ WellFormedTokens(r)

\* C3 as stated: with a chain that is not in the venue table, an otherwise valid
\* invocation fails with the unsupported-chain error and no network call has
\* been made.
C3_Original ==
    (Invoked /\ ValidButChainAndAmount(req) /\ EtherAmount(req.amount)
        /\ req.fromChain \notin SupportedChains)
        => (pc = "failed" /\ error = UnsupportedChainError /\ calls = <<>>)

\* what holds of an invocation that passes the validation and is stopped in
\* getBebopQuote before the venue is called, with the error `e`: its only call
\* is the address resolution; it fails with `e` once the address is returned,
\* and with the custody service's error when the resolution fails.
StoppedBeforeVenue(e) ==
    /\ calls = <<WalletsGet(req.walletId)>>
    /\ pc \in {"resolving", "failed"}
    /\ (pc = "resolving" <=> responses = <<>>)
    /\ pc = "failed" =>
          /\ Len(responses) = 1
          /\ responses[1].ok => error = e
          /\ ~responses[1].ok => error = responses[1].value

\* C3 amended: with a chain that is not in the venue table, an otherwise valid
\* invocation issues the address resolution and no other call; when the address
\* is returned it fails with the unsupported-chain error, before the venue is
\* called and before anything is submitted.
C3_UnsupportedChainBeforeVenue ==
    (Invoked /\ ValidButChainAndAmount(req) /\ EtherAmount(req.amount)
        /\ req.fromChain \notin SupportedChains)
        => StoppedBeforeVenue(UnsupportedChainError)

C3_Witness ==
    /\ pc = "failed"
    /\ ValidButChainAndAmount(req)
    /\ EtherAmount(req.amount)
    /\ req.fromChain \notin SupportedChains
    /\ Len(responses) = 1
    /\ responses[1].ok
    /\ error = UnsupportedChainError
    /\ calls = <<WalletsGet(req.walletId)>>

\* C4 as stated: a request whose amount is present but is not a decimal number
\* with at most 18 fractional digits, and whose other fields are valid, fails
\* with no network call issued.
C4_Original ==
    (Invoked /\ ValidButChainAndAmount(req) /\ req.fromChain \in SupportedChains
        /\ ~DecimalUpTo18(req.amount))
        => (pc = "failed" /\ calls = <<>>)

\* C4 amended: a request whose amount is present but is not a decimal number, or
\* has a non-zero digit after the 18th fractional digit, and whose other fields
\* are valid, issues the address resolution and no other call; when the address
\* is returned it fails with the error of the conversion, before the venue is
\* called.
C4_MalformedAmountBeforeVenue ==
    (Invoked /\ ValidButChainAndAmount(req) /\ req.fromChain \in SupportedChains
        /\ ~EtherAmount(req.amount))
        => StoppedBeforeVenue(
              Err(IF MatchesFixed(req.amount) THEN "too many decimals for format"
                  ELSE "invalid FixedNumber string value", ""))

C4_Witness ==
    /\ pc = "failed"
    /\ ValidButChainAndAmount(req)
    /\ req.fromChain \in SupportedChains
    /\ MatchesFixed(req.amount)
    /\ ~EtherAmount(req.amount)
    /\ Len(responses) = 1
    /\ responses[1].ok
    /\ error = Err("too many decimals for format", "")
    /\ calls = <<WalletsGet(req.walletId)>>

\* the approval transactions among the calls: submissions to the sell token
ApprovalCalls ==
    {i \in 1..Len(calls) : IsSubmission(calls[i]) /\ calls[i].transaction.to = req.fromToken.text}

\* C5 as stated: once the invocation has reached the quote stage, an approval
\* transaction for the sell token has been submitted if and only if skipApproval
\* is false, and it was submitted after the address resolution and before the
\* quote request.
C5_Original ==
    pc \in {"quoting", "executing", "done"}
        => /\ (ApprovalCalls # {}) <=> ~req.skipApproval
           /\ \A i \in ApprovalCalls :
                 /\ \E j \in 1..(i - 1) : calls[j].op = "wallets.get"
                 /\ \A j \in VenueCalls : i < j

\* the venue has answered, and its answer carries an error
VenueErrorAnswered ==
    /\ Len(responses) >= 2
    /\ responses[2].ok
    /\ Truthy(responses[2].value.error)

\* C6: when the venue's answer carries an error (a non-empty error field), the
\* invocation fails with the quote error made of it, and no transaction has been
\* submitted to the custody service.
C6_QuoteErrorNeverSubmits ==
    VenueErrorAnswered
        => /\ pc = "failed"
           /\ error = Err("Bebop quote error", responses[2].value.error)
           /\ Submissions = {}

C6_Witness ==
    /\ VenueErrorAnswered
    /\ responses[2].value.tx.present
    /\ pc = "failed"
    /\ error.message = "Bebop quote error"
    /\ Submissions = {}

\* the error is the one the failing stage raised: the rejection of the last
\* call when it was rejected, else an error of the stage that the last answer
\* started
ErrorOfFailingStage ==
    /\ responses # <<>>
    /\ IF ~responses[Len(responses)].ok
       THEN error = responses[Len(responses)].value
       ELSE IF Len(responses) = 1
       THEN error \in {UnsupportedChainError, Err("invalid FixedNumber string value", ""),
                       Err("too many decimals for format", "")}
       ELSE /\ Len(responses) = 2
            /\ error \in {Err("Bebop quote error", responses[2].value.error), TypeErrorUndefined}

\* C7: the step in which a stage fails issues no call and hands the caller the
\* very error the stage raised; after it no call is issued, and the error and
\* the failed state stay.
C7_FailureAborts ==
    [][ /\ (pc # "failed" /\ pc # "idle" /\ pc' = "failed")
            => (calls' = calls /\ ErrorOfFailingStage')
        /\ pc = "failed"
            => (pc' = "failed" /\ calls' = calls /\ error' = error) ]_vars

C7_Witness ==
    /\ pc = "failed"
    /\ Len(calls) = 3
    /\ Len(responses) = 3
    /\ ~responses[3].ok
    /\ error = responses[3].value

\* the operations of the calls, in the order they were issued
Ops == [i \in 1..Len(calls) |-> calls[i].op]

IsPrefix(a, b) == Len(a) <= Len(b) /\ a = SubSeq(b, 1, Len(a))

StagesSkippingApproval == <<"wallets.get", "axios.get", "walletApi.rpc">>
StagesWithApproval == <<"wallets.get", "walletApi.rpc", "axios.get", "walletApi.rpc">>

\* C8: the calls are issued in the order resolution, (approval,) quote,
\* submission, each at most once; a call is issued only when every earlier call
\* has been answered, and the invocation stands at the stage of its last call.
C8_StagesInOrder ==
    /\ IsPrefix(Ops, StagesSkippingApproval) \/ IsPrefix(Ops, StagesWithApproval)
    /\ Len(responses) <= Len(calls)
    /\ Len(calls) <= Len(responses) + 1
    /\ pc = "resolving" => Ops[Len(calls)] = "wallets.get" /\ Len(responses) = Len(calls) - 1
    /\ pc = "quoting" => Ops[Len(calls)] = "axios.get" /\ Len(responses) = Len(calls) - 1
    /\ pc = "executing" => Ops[Len(calls)] = "walletApi.rpc" /\ Len(responses) = Len(calls) - 1
    /\ pc \in {"idle", "done", "failed"} => Len(responses) = Len(calls)

C8_Witness ==
    /\ pc = "done"
    /\ Ops = StagesSkippingApproval
    /\ Len(responses) = 3

\* C9: a successful return carries success = true, the hash the custody service
\* returned for the submission, the sell amount sent in the quote request, the
\* buy amount the venue reported (at the top level of its answer, else in its
\* tx) and the request's tokens; and success is only reported after the
\* submission has succeeded.
C9_ResultOfSuccess ==
    /\ pc = "done" =>
          /\ result.success
          /\ Len(responses) = 3 /\ responses[3].ok
          /\ result.transactionHash = responses[3].value.hash
          /\ result.quote.sellAmount = calls[2].params.sell_amounts
          /\ result.quote.sellAmount = quote.sellAmount
          /\ result.quote.buyAmount =
                (IF Truthy(responses[2].value.buyAmount) THEN responses[2].value.buyAmount
                 ELSE responses[2].value.tx.buyAmount)
          /\ result.quote.fromToken = req.fromToken
          /\ result.quote.toToken = req.toToken
    /\ result.success => pc = "done"
    /\ pc # "done" => result = NoResult

C9_Witness ==
    /\ pc = "done"
    /\ result.success
    /\ result.transactionHash = "0xabc"
    /\ req.fromToken = WETH /\ req.toToken = USDC
    /\ req.amount = <<"1">> /\ req.fromChain = 8453 /\ req.skipApproval /\ ~req.gasless
    /\ result.quote.sellAmount =
          <<"1","0","0","0","0","0","0","0","0","0","0","0","0","0","0","0","0","0","0">>
    /\ result.quote.buyAmount = "2000"

\* C10: every submission of the invocation carries the prepared transaction of
\* the quote obtained from the venue's answer (its destination and data, its
\* value or '0x0' when it has none), with eth_sendTransaction, the chain
\* eip155:<fromChain> and the request's wallet; a quote with a prepared
\* transaction is submitted exactly once, and nothing else is submitted.
C10_SubmissionIsTheQuote ==
    /\ \A i \in Submissions :
          /\ Len(responses) >= 2 /\ responses[2].ok
          /\ quote.tx = responses[2].value.tx
          /\ calls[i].service = "custody"
          /\ calls[i].method = "eth_sendTransaction"
          /\ calls[i].walletId = req.walletId
          /\ calls[i].caip2 = <<"eip155", req.fromChain>>
          /\ calls[i].transaction.to = quote.tx.to
          /\ calls[i].transaction.data = quote.tx.data
          /\ calls[i].transaction.value =
                (IF quote.tx.value = Undefined THEN "0x0" ELSE quote.tx.value)
    /\ Cardinality(Submissions) = (IF quote.tx.present THEN 1 ELSE 0)

C10_Witness ==
    /\ pc = "executing"
    /\ quote.tx.present
    /\ quote.tx.value = Undefined
    /\ Cardinality(Submissions) = 1
    /\ calls[3].transaction.value = "0x0"
    /\ calls[3].transaction.data = "0xd1"

\* the decimal number whole.decimal with its point moved n places to the right
RECURSIVE ShiftPoint(_, _, _)
ShiftPoint(whole, decimal, n) ==
    IF n = 0 THEN <<whole, decimal>>
    ELSE IF decimal = <<>> THEN ShiftPoint(Append(whole, "0"), <<>>, n - 1)
    ELSE ShiftPoint(Append(whole, Head(decimal)), Tail(decimal), n - 1)

\* a x 10^18 as an integer string, for a decimal number a whose product is whole
TimesTenTo18(a) ==
    LET shifted == ShiftPoint(WholePart(a), DecimalPart(a), EtherDecimals)
        digits == StripZeros(shifted[1])
    IN  IF digits = <<>> THEN <<"0">>
        ELSE IF IsNegative(a) THEN <<"-">> \o digits ELSE digits

OnePointFive == <<"1", ".", "5">>
OnePointFiveInWei ==
    <<"1","5","0","0","0","0","0","0","0","0","0","0","0","0","0","0","0","0","0">>

\* C11: the sell amount sent to the venue is the request's amount x 10^18 as an
\* integer string ("1.5" gives "1500000000000000000"); it is computed from the
\* amount alone, whatever the sell token.
C11_SellAmountScaled ==
    \A i \in VenueCalls :
        /\ calls[i].params.sell_amounts = TimesTenTo18(req.amount)
        /\ req.amount = OnePointFive => calls[i].params.sell_amounts = OnePointFiveInWei

C11_Witness ==
    /\ VenueCalls # {}
    /\ req.amount = OnePointFive
    /\ req.fromToken = WethBare
    /\ calls[2].params.sell_amounts = OnePointFiveInWei

\* the venue's network name of each supported chain
VenueNames ==
    { <<1, "ethereum">>, <<8453, "base">>, <<137, "polygon">>, <<42161, "arbitrum">>,
      <<10, "optimism">>, <<11155111, "sepolia">> }

\* C12: a quote request is only issued for a supported chain, at the endpoint of
\* the one network name of that chain; for any other chain the venue is never
\* requested.
C12_OneNamePerSupportedChain ==
    /\ \A i \in VenueCalls :
          \E n \in VenueNames :
              /\ n[1] = req.fromChain
              /\ calls[i].url = <<"https://api.bebop.xyz/pmm", n[2], "v3/quote">>
              /\ \A m \in VenueNames : m[1] = n[1] => m[2] = n[2]
    /\ (Invoked /\ req.fromChain \notin SupportedChains) => VenueCalls = {}
    /\ \A c \in SupportedChains : \E n \in VenueNames : n[1] = c /\ getChainName(c) = n[2]

C12_Witness ==
    /\ VenueCalls # {}
    /\ req.fromChain = 11155111
    /\ calls[2].url = <<"https://api.bebop.xyz/pmm", "sepolia", "v3/quote">>

\* the venue has answered without an error and without a prepared transaction
VenueAnsweredWithoutTx ==
    /\ Len(responses) >= 2
    /\ responses[2].ok
    /\ ~Truthy(responses[2].value.error)
    /\ ~responses[2].value.tx.present

\* C18: every submission is preceded by a venue answer that carries a prepared
\* transaction; when the answer has neither an error nor a prepared
\* transaction, the invocation fails and nothing is submitted.
C18_NoSubmissionWithoutTx ==
    /\ Submissions # {} =>
          (Len(responses) >= 2 /\ responses[2].ok /\ responses[2].value.tx.present)
    /\ VenueAnsweredWithoutTx =>
          (pc = "failed" /\ error = TypeErrorUndefined /\ Submissions = {})

C18_Witness ==
    /\ VenueAnsweredWithoutTx
    /\ Truthy(responses[2].value.buyAmount)
    /\ pc = "failed"
    /\ Len(calls) = 2

Awaiting == {"resolving", "quoting", "executing"}

\* C13: when every call is answered, an invocation that was started ends in
\* "done" or "failed"; and an invocation suspended at a call leaves that await
\* only by the answer to the call (nothing else, such as a timeout or a
\* cancellation, moves it on), so that it never ends while the answer is
\* missing.
C13_EndsIffAnswered ==
    /\ Invoked ~> (pc \in {"done", "failed"})
    /\ [][ (pc \in Awaiting /\ pc' # pc)
              => (Len(responses') = Len(responses) + 1 /\ calls' # <<>>) ]_vars

C13_Witness ==
    /\ pc = "done"
    /\ Len(responses) = 3
    /\ Len(calls) = 3

(***************************************************************************)
(* Properties of withdrawSepoliaETH.                                       *)
(***************************************************************************)
\* s x 16 + carry, for a decimal digit string s (worked from its last digit)
RECURSIVE TimesSixteenPlus(_, _, _)
TimesSixteenPlus(s, carry, out) ==
    IF s = <<>>
    THEN IF carry = 0 THEN out
         ELSE TimesSixteenPlus(<<>>, carry \div 10, <<HexDigits[(carry % 10) + 1]>> \o out)
    ELSE LET v == DigitValue(s[Len(s)]) * 16 + carry
         IN  TimesSixteenPlus(SubSeq(s, 1, Len(s) - 1), v \div 10,
                              <<HexDigits[(v % 10) + 1]>> \o out)

RECURSIVE DecimalOfHex(_, _)
DecimalOfHex(h, acc) ==
    IF h = <<>> THEN acc
    ELSE DecimalOfHex(Tail(h), TimesSixteenPlus(acc, DigitValue(Head(h)), <<>>))

\* the number a "0x" hexadecimal string denotes, as a decimal integer string
WeiOfHex(h) ==
    IF StripZeros(DecimalOfHex(SubSeq(h, 3, Len(h)), <<>>)) = <<>> THEN <<"0">>
    ELSE StripZeros(DecimalOfHex(SubSeq(h, 3, Len(h)), <<>>))

\* the amount is a decimal number whose value in wei is a non-negative integer
ConvertibleToWei(a) ==
    /\ EtherAmount(a)
    /\ Head(TimesTenTo18(a)) # "-"

\* the argument passes every check that precedes the call
Withdrawable(r) ==
    /\ Truthy(r.walletId)
    /\ Truthy(r.recipientAddress.text)
    /\ AmountTruthy(r.amountEth)
    /\ isAddress(r.recipientAddress)
    /\ ConvertibleToWei(r.amountEth)

WithdrawInvoked == withdrawal.pc # "idle"

ScriptStarted == script.pc # "idle"
ConfigComplete ==
    \A key \in {"PRIVY_APP_ID", "PRIVY_APP_SECRET", "WALLET_ID", "RECIPIENT_ADDRESS", "CAIP2"} :
        Truthy(script.env[key])

\* C16: no run of main issues an eth_sendTransaction or any other call to the
\* custody service; and a run with one of the five environment variables
\* missing ends with exit code 1, no client created and no network call.
C16_NeverSendsAndFailsFast ==
    /\ \A i \in 1..Len(script.calls) :
          /\ script.calls[i].method # "eth_sendTransaction"
          /\ script.calls[i].service # "custody"
    /\ (ScriptStarted /\ ~ConfigComplete)
          => /\ script.pc = "exited"
             /\ script.exitCode = 1
             /\ ~script.clientCreated
             /\ script.calls = <<>>

C16_Witness ==
    /\ script.pc = "exited"
    /\ script.exitCode = 1
    /\ script.env.CAIP2 = ""
    /\ script.error = ScriptErr("Missing required environment variables", <<"WALLET_ID", "CAIP2">>)
    /\ ~script.clientCreated

\* the run reported completion and process.exit(1) was not called
ReportedCompletion ==
    /\ script.pc = "completed"
    /\ script.log # <<>>
    /\ script.log[Len(script.log)] = "All tests completed successfully!"
    /\ script.exitCode # 1

\* C20: with a complete configuration, when the chain has no RPC URL or the
\* RPC call fails, the balance is null and main still reports completion and
\* does not exit with code 1.
C20_BalanceFailureTolerated ==
    /\ (ScriptStarted /\ ConfigComplete
          /\ script.env.CAIP2 \notin {"eip155:1", "eip155:8453", "eip155:11155111"})
          => (script.balance = Null /\ ReportedCompletion /\ script.responses = <<>>)
    /\ (script.responses # <<>> /\ ~script.responses[1].ok)
          => (script.balance = Null /\ ReportedCompletion)

C20_Witness ==
    /\ script.responses = <<Threw(ScriptErr("server error", <<>>))>>
    /\ script.env.CAIP2 = "eip155:8453"
    /\ script.pc = "completed"
    /\ script.balance = Null

(***************************************************************************)
(* Properties of getBalanceByAsset.                                        *)
(***************************************************************************)
RECURSIVE SumOfAmounts(_, _)
SumOfAmounts(table, keys) ==
    IF keys = {} THEN 0
    ELSE LET c == CHOOSE k \in keys : TRUE
         IN  table[c].amount + SumOfAmounts(table, keys \ {c})

\* C19 as stated: in every result, total.amount is the sum of the amounts of
\* the entries of balancesByChain and total.chains is the number of those
\* entries, whatever the balance entries of the response (chains possibly
\* repeated).
C19_Original ==
    balances.pc = "done"
        => /\ balances.result.total.amount
                 = SumOfAmounts(balances.result.balancesByChain,
                                DOMAIN balances.result.balancesByChain)
           /\ balances.result.total.chains
                 = Cardinality(DOMAIN balances.result.balancesByChain)

(***************************************************************************)
(* Properties of the command-line entry points.                            *)
(***************************************************************************)
Exited == cli.pc = "exited"
WalletIdMissing == ~Truthy(cli.run.WALLET_ID)

\* a required argument of the entry point is missing
RequiredArgMissing ==
    CASE cli.run.entry = "swap" ->
            \/ ~Truthy(cli.run.fromToken.text)
            \/ ~Truthy(cli.run.toToken.text)
            \/ ~AmountTruthy(cli.run.amount)
      [] cli.run.entry = "withdraw" ->
            \/ ~AmountTruthy(cli.run.amountArg)
            \/ (~Truthy(cli.run.recipientArg.text) /\ ~Truthy(cli.run.WITHDRAW_RECIPIENT.text))
      [] cli.run.entry = "balance-asset" -> FALSE
      [] cli.run.entry = "wallet-balance" -> cli.run.command = Undefined

\* an argument that is there is not a valid one
ArgInvalid ==
    CASE cli.run.entry = "swap" ->
            \/ (Truthy(cli.run.fromToken.text) /\ ~isAddress(cli.run.fromToken))
            \/ (Truthy(cli.run.toToken.text) /\ ~isAddress(cli.run.toToken))
            \/ (AmountTruthy(cli.run.amount) /\ ~EtherAmount(cli.run.amount))
      [] cli.run.entry = "withdraw" ->
            \/ (Truthy(cli.run.recipientArg.text) /\ ~isAddress(cli.run.recipientArg))
            \/ (AmountTruthy(cli.run.amountArg) /\ ~EtherAmount(cli.run.amountArg))
            \/ (AmountTruthy(cli.run.amountArg) /\ Head(cli.run.amountArg) = "-")
      [] cli.run.entry = "balance-asset" ->
            cli.run.assetArg \notin {Undefined, "eth", "usdc", "USDC", "usdt", "pol", "sol"}
      [] cli.run.entry = "wallet-balance" ->
            cli.run.command \notin {Undefined, "eth", "usdc", "all", "custom"}

\* the wallet-balance entry point was run with a wallet identifier and with no
\* command or an unknown one
UsageCase ==
    /\ cli.run.entry = "wallet-balance"
    /\ ~WalletIdMissing
    /\ cli.run.command \notin {"eth", "usdc", "all", "custom"}

RECURSIVE Replay(_, _)
Replay(r, answers) ==
    IF answers = <<>> THEN started(SwapIdle, r)
    ELSE LET before == Replay(r, SubSeq(answers, 1, Len(answers) - 1))
         IN  resumed(before, answers[Len(answers)], before.amountWei)

\* the single invocation of Spec is such a run
LoneRunIsReplay ==
    Invoked =>
        [pc |-> pc, req |-> req, calls |-> calls, responses |-> responses,
         walletInfo |-> walletInfo, amountWei |-> amountWei, quote |-> quote,
         result |-> result, error |-> error] = Replay(req, responses)

====
